---- MODULE Spec2Model ----
(***************************************************************************)
(* Model of the school-schedule optimizer: the greedy constructor          *)
(* (algorithms/greedy.py), the constraint system of the MILP model         *)
(* (algorithms/milp.py) and the iteration driver (pipeline.py).            *)
(*                                                                         *)
(* Scores are floating-point products in the source.  They are modelled    *)
(* as exact rationals <<num, den>> (den > 0), or as integers scaled by a   *)
(* common factor, and compared exactly.                                    *)
(***************************************************************************)
EXTENDS Integers, Sequences, FiniteSets, TLC

(***************************************************************************)
(* Bounds of the model.                                                    *)
(***************************************************************************)
MaxSections == 2
MaxStudents == 2

(***************************************************************************)
(* Program constants.                                                      *)
(***************************************************************************)
SpedCap == 12
max_iterations == 5

NoPeriod == "None"
NoSection == 0

PeriodLabels == {"P1", "R1"}
TeacherIds == {"T1", "T2"}
Capacities == {1, 2}

\* sorted() on period ids: the order of the strings
StrRank == [l \in {"G1", "G2", "P1", "R1", "R2"} |->
              CASE l = "G1" -> 1 [] l = "G2" -> 2 [] l = "P1" -> 3
                [] l = "R1" -> 4 [] l = "R2" -> 5]

RECURSIVE Fact(_)
Fact(n) == IF n <= 1 THEN 1 ELSE n * Fact(n - 1)

RECURSIVE Pow2(_)
Pow2(n) == IF n <= 0 THEN 1 ELSE 2 * Pow2(n - 1)

\* e in seq (Python: e in list)
InSeq(e, seq) == \E i \in DOMAIN seq : seq[i] = e

\* exact comparison of two scores <<num, den>> with den > 0
ScoreGT(a, b) == a[1] * b[2] > b[1] * a[2]
ScorePositive(a) == a[1] > 0
ZeroScore == <<0, 1>>
MinusOne == <<-1, 1>>

VARIABLES
    algorithm,            \* "greedy" or "milp": ScheduleOptimizer.run_optimization's switch
    inst,                 \* the converted input: periods, teachers, sections, students, preferences
    pc,                   \* position in GreedyOptimizer.optimize / MILPOptimizer.optimize
    scheduled_sections,   \* greedy: section -> period id (NoPeriod: not a key of the dict)
    student_assignments,  \* greedy: student -> list of sections
    cur,                  \* loop cursors of the greedy: [i: section, j: student, k: special course]
    plan,                 \* Pass B: the sections still to place for the current student (sorted_courses)
    sol,                  \* MILP: [x: set of <<s,p>>, y: set of <<u,s>>, status: how model.optimize() ended]
    returned              \* <<>>, or <<the Schedule optimize() returned>>: [sections: section -> period, assignments]

svars == <<algorithm, inst, pc, scheduled_sections, student_assignments, cur, plan, sol, returned>>

\* OptimizationPipeline.run: the iteration driver
VARIABLES
    ppc,                  \* position in run(): "while", "greedy", "milp", "analyze", "agent", "check", "final", "returned", "raised"
    iteration,            \* self.iteration
    catalog,              \* the section ids of Sections_Information.csv in current_input_dir
    milp_outcome,         \* how MILPOptimizer.optimize ended in this iteration ("none": not run yet)
    schedule,             \* milp_schedule: which schedule _run_milp_optimization returned ("None": not yet)
    underutilized,        \* underutilized_sections of this iteration: [known, ids]
    new_input_files,      \* the catalog written by _run_claude_agent in this iteration: [known, ids]
    oracle,               \* how the oracle call of this iteration ended ("none": not called yet)
    last_success,         \* <<>> (unbound) or <<[iteration, schedule]>>
    overall_result,       \* <<>> (None) or the last_success it was assigned
    caught,               \* the stage whose exception the except clause of run() caught ("None": none)
    metrics_iterations,   \* self.metrics['iterations']
    results_iterations    \* <<>> or <<results['iterations']>>

pvars == <<ppc, iteration, catalog, milp_outcome, schedule, underutilized, new_input_files, oracle,
           last_success, overall_result, caught, metrics_iterations, results_iterations>>

\* OptimizationPipeline._apply_schedule_actions: the action applier
VARIABLES
    apc,                  \* position in _apply_schedule_actions: "idle", "applying" (in the for loop), "saved"
    sections_df,          \* the rows of sections_df in table order: [label, id, course, teacher, department, capacity]
    preferences_df,       \* the column "Preferred Sections" of preferences_df, one cell per row
    applied,              \* how many entries of the action list the for loop has processed
    input_tables          \* the tables as read from input_dir: [sections, preferences]

avars == <<apc, sections_df, preferences_df, applied, input_tables>>

\* api.py: the job table and the threads that use it
VARIABLES
    jobs,                 \* the module-level dict: job id -> [status] (DOMAIN jobs: the keys)
    wpc,                  \* per job, the position of its run_optimization_job thread
    results,              \* per job, the local "results" of its thread: "None", "success", "failure"
    error,                \* per job, the exception its thread met last: "None", "optimizer", "KeyError"
    dpc,                  \* per DELETE request, the position of its handler or its response
    dtarget               \* per DELETE request, the job_id of its URL

jvars == <<jobs, wpc, results, error, dpc, dtarget>>

vars == <<svars, pvars, avars, jvars>>

\* a local of the loop body that this iteration has not assigned yet
Unassigned == [known |-> FALSE, ids |-> {}]

\* the pipeline before run() is called
PipelineConstructed ==
    /\ ppc = "constructed"
    /\ iteration = 0
    /\ catalog = {}
    /\ milp_outcome = "none"
    /\ schedule = "None"
    /\ underutilized = Unassigned
    /\ new_input_files = Unassigned
    /\ oracle = "none"
    /\ last_success = <<>>
    /\ overall_result = <<>>
    /\ caught = "None"
    /\ metrics_iterations = 0
    /\ results_iterations = <<>>

\* how many jobs are submitted, and how many DELETE requests arrive
MaxJobs == 2
MaxRequests == 2

\* the job API before any request: "jobs = {}", no thread, no handler
JobsIdle ==
    /\ jobs = <<>>
    /\ wpc = [j \in 1..MaxJobs |-> "none"]
    /\ results = [j \in 1..MaxJobs |-> "None"]
    /\ error = [j \in 1..MaxJobs |-> "None"]
    /\ dpc = [r \in 1..MaxRequests |-> "none"]
    /\ dtarget = [r \in 1..MaxRequests |-> 1]

\* the action applier before _apply_schedule_actions is called
ApplierIdle ==
    /\ apc = "idle"
    /\ sections_df = <<>>
    /\ preferences_df = <<>>
    /\ applied = 0
    /\ input_tables = [sections |-> <<>>, preferences |-> <<>>]

(***************************************************************************)
(* The inputs: what DataConverter hands to the optimizers.                 *)
(*   periods             list of [id, name]           (dict order)         *)
(*   teachers            teacher id -> [unavailable_periods]               *)
(*   sections            list of [id, course_id, teacher_id, capacity]     *)
(*   students            list of [id, has_special_needs]                   *)
(*   student_preferences student id -> [preferred_courses, required_courses]*)
(* A section may name a teacher that is not in the teacher table (the      *)
(* loader only warns), a period's id may differ from its name, and a       *)
(* student may have no preference row.                                     *)
(***************************************************************************)
SetToSortedSeq(I) ==
    CHOOSE s \in [1..Cardinality(I) -> I] :
        \A a, b \in 1..Cardinality(I) : a < b => StrRank[s[a]] < StrRank[s[b]]

\* every non-empty set of period ids, every naming of them
PeriodConfigs ==
    UNION {{[i \in 1..Cardinality(I) |->
                [id |-> SetToSortedSeq(I)[i], name |-> nm[SetToSortedSeq(I)[i]]]] :
            nm \in [I -> PeriodLabels]} : I \in (SUBSET PeriodLabels) \ {{}}}

PeriodsById == {<<[id |-> "P1", name |-> "P1"]>>,
                <<[id |-> "P1", name |-> "P1"], [id |-> "R1", name |-> "R1"]>>}

\* T2 is known and always available; T1 is unknown, or known with any unavailability
TeacherConfigs ==
    {[t \in {"T2"} |-> [unavailable_periods |-> {}]]} \cup
    {[t \in TeacherIds |-> [unavailable_periods |-> IF t = "T1" THEN U ELSE {}]] :
        U \in SUBSET PeriodLabels}

TeachersAllKnown == [t \in TeacherIds |-> [unavailable_periods |-> {}]]

MkSections(f) ==
    [i \in DOMAIN f |-> [id |-> i, course_id |-> f[i].course_id,
                         teacher_id |-> f[i].teacher_id, capacity |-> f[i].capacity]]

\* the first section is T1's (the teacher that may be unknown or unavailable)
SectionConfigsA ==
    UNION {{MkSections(f) :
            f \in {g \in [1..n -> [course_id : {"Medical Career", "Sports Med", "Math"},
                                   teacher_id : TeacherIds, capacity : {1}]] :
                      g[1].teacher_id = "T1"}} :
           n \in 1..MaxSections}

AlternateTeacher(i) == IF i % 2 = 1 THEN "T1" ELSE "T2"

\* all sections of one input have the same capacity
SectionConfigsB(caps) ==
    UNION {{[i \in 1..n |-> [id |-> i, course_id |-> f[i],
                             teacher_id |-> AlternateTeacher(i), capacity |-> cap]] :
            f \in [1..n -> {"Math", "Sports Med"}], cap \in caps} :
           n \in 1..MaxSections}

MkStudents(m, sped) == [u \in 1..m |-> [id |-> u, has_special_needs |-> u \in sped]]

Pref(p, r) == [has |-> TRUE, preferred_courses |-> p, required_courses |-> r]
NoPref == [has |-> FALSE, preferred_courses |-> <<>>, required_courses |-> <<>>]

MkPreferences(g) ==
    [u \in {v \in DOMAIN g : g[v].has} |->
        [preferred_courses |-> g[u].preferred_courses,
         required_courses |-> g[u].required_courses]]

PrefChoicesB == {NoPref, Pref(<<>>, <<>>), Pref(<<"Math">>, <<>>),
                 Pref(<<"Math", "Sports Med">>, <<>>),
                 Pref(<<"Sports Med", "Math">>, <<"Math">>)}

PrefChoicesM == {Pref(<<"Math">>, <<>>), Pref(<<"Math", "Sports Med">>, <<>>)}

Instance(p, t, s, st, pr) ==
    [periods |-> p, teachers |-> t, sections |-> s, students |-> st,
     student_preferences |-> pr]

\* Family A: periods, teachers and courses vary; one student who wants Math
InstancesA ==
    {Instance(p, t, s, MkStudents(1, {}), MkPreferences(<<Pref(<<"Math">>, <<>>)>>)) :
        p \in PeriodConfigs, t \in TeacherConfigs, s \in SectionConfigsA}

\* Family B: students, preferences and capacities vary
StudentConfigs(choices) ==
    UNION {{<<MkStudents(m, sped), MkPreferences(g)>> :
            sped \in {{}, {m}}, g \in [1..m -> choices]} : m \in 1..MaxStudents}

InstancesB ==
    {Instance(p, TeachersAllKnown, s, sp[1], sp[2]) :
        p \in PeriodsById, s \in SectionConfigsB(Capacities), sp \in StudentConfigs(PrefChoicesB)}

InstancesMB ==
    {Instance(p, TeachersAllKnown, s, sp[1], sp[2]) :
        p \in PeriodsById, s \in SectionConfigsB({1}),
        sp \in {q \in StudentConfigs(PrefChoicesM) : \A u \in DOMAIN q[1] : ~q[1][u].has_special_needs}}

\* Scenario "SPED cap": one section, one period, more special-needs students than the cap
SpedScenario ==
    Instance(<<[id |-> "P1", name |-> "P1"]>>, TeachersAllKnown,
             <<[id |-> 1, course_id |-> "Math", teacher_id |-> "T1", capacity |-> 30]>>,
             MkStudents(SpedCap + 1, 1..(SpedCap + 1)),
             [u \in 1..(SpedCap + 1) |-> [preferred_courses |-> <<"Math">>,
                                          required_courses |-> <<>>]])

Instances(alg) ==
    IF alg = "greedy" THEN InstancesA \cup InstancesB \cup {SpedScenario}
    ELSE InstancesA \cup InstancesMB \cup {SpedScenario}

NSections == Len(inst.sections)
NStudents == Len(inst.students)
SectionIds == 1..NSections
StudentIds == 1..NStudents
PeriodIds == {inst.periods[i].id : i \in DOMAIN inst.periods}

(***************************************************************************)
(* GreedyOptimizer: preprocessing                                          *)
(***************************************************************************)
section_to_course(s) == inst.sections[s].course_id
section_to_teacher(s) == inst.sections[s].teacher_id
course_to_sections(c) == {s \in SectionIds : section_to_course(s) = c}
teacher_to_sections(t) == {s \in SectionIds : section_to_teacher(s) = t}

\* course -> the period names it is restricted to
course_period_restrictions ==
    [c \in {"Medical Career", "Heroes Teach"} |->
        IF c = "Medical Career" THEN <<"R1", "G1">> ELSE <<"R2", "G2">>]

\* greedy: the ids of the periods whose NAME is in the allowed list
special_course_periods ==
    [c \in DOMAIN course_period_restrictions |->
        {inst.periods[i].id : i \in {j \in DOMAIN inst.periods :
                                        InSeq(inst.periods[j].name, course_period_restrictions[c])}}]

sped_students == {u \in StudentIds : inst.students[u].has_special_needs}

\* "if teacher_id and teacher_id in self.teachers"
TeacherKnown(t) == t # "" /\ t \in DOMAIN inst.teachers

(***************************************************************************)
(* _compute_section_priority, multiplied by 10 * 5 * NSections! * 1000     *)
(***************************************************************************)
compute_section_priority(s) ==
    LET course_id == section_to_course(s)
        teacher_id == section_to_teacher(s)
        special == IF course_id \in DOMAIN special_course_periods THEN 5 ELSE 1
        sports == IF course_id = "Sports Med" THEN 3 ELSE 1
        unavail == IF TeacherKnown(teacher_id)
                   THEN 10 + Cardinality(inst.teachers[teacher_id].unavailable_periods)
                   ELSE 10
        load == IF TeacherKnown(teacher_id)
                THEN 5 + Cardinality(teacher_to_sections(teacher_id))
                ELSE 5
        course_section_count == Cardinality(course_to_sections(course_id))
        scarcity == (Fact(NSections) * (course_section_count + 1)) \div course_section_count
        student_demand == Cardinality({u \in DOMAIN inst.student_preferences :
                              InSeq(course_id, inst.student_preferences[u].preferred_courses)})
    IN  special * sports * unavail * load * scarcity * (1000 + student_demand)

(***************************************************************************)
(* _compute_period_score: <<0, 1>> is a forbidden period                   *)
(***************************************************************************)
IsScheduled(s) == scheduled_sections[s] # NoPeriod

TeacherConflict(s, p) ==
    \E o \in teacher_to_sections(section_to_teacher(s)) :
        IsScheduled(o) /\ scheduled_sections[o] = p

\* variant of TeacherBlocked without "if period_id in teacher.unavailable_periods"
TeacherBlockedByConflictOnly(s, p) ==
    TeacherKnown(section_to_teacher(s)) /\ TeacherConflict(s, p)

TeacherBlocked(s, p) ==
    /\ TeacherKnown(section_to_teacher(s))
    /\ \/ p \in inst.teachers[section_to_teacher(s)].unavailable_periods
       \/ TeacherConflict(s, p)

PeriodForbiddenForCourse(s, p) ==
    /\ section_to_course(s) \in DOMAIN special_course_periods
    /\ p \notin special_course_periods[section_to_course(s)]

compute_period_score(s, p) ==
    LET course_id == section_to_course(s)
        course_usage == Cardinality({o \in course_to_sections(course_id) :
                                        IsScheduled(o) /\ scheduled_sections[o] = p})
        boost == IF course_id \in DOMAIN special_course_periods /\ course_usage = 0
                 THEN 2 ELSE 1
        sports == IF course_id = "Sports Med" /\ course_usage > 0 THEN 2 ELSE 1
        period_usage == Cardinality({o \in SectionIds : scheduled_sections[o] = p})
    IN  IF PeriodForbiddenForCourse(s, p) THEN ZeroScore
        ELSE IF TeacherBlocked(s, p) THEN ZeroScore
        ELSE <<20 * boost, (2 + course_usage) * sports * (10 + period_usage)>>

\* Python's stable sorted(keys, key=lambda s: -section_priority[s]): descending
\* by priority, equal priorities keep their dict (insertion) order
sorted_sections ==
    LET rank(i) == Cardinality({j \in SectionIds :
                        \/ compute_section_priority(j) > compute_section_priority(i)
                        \/ (compute_section_priority(j) = compute_section_priority(i) /\ j < i)})
    IN  [r \in SectionIds |-> CHOOSE i \in SectionIds : rank(i) = r - 1]
sorted_periods == SetToSortedSeq(PeriodIds)

\* "for period_id in sorted_periods: if score > best_score: ..."
RECURSIVE BestPeriodFrom(_, _, _, _)
BestPeriodFrom(s, idx, best_period, best_score) ==
    IF idx > Len(sorted_periods) THEN <<best_period, best_score>>
    ELSE LET score == compute_period_score(s, sorted_periods[idx])
         IN  IF ScoreGT(score, best_score)
             THEN BestPeriodFrom(s, idx + 1, sorted_periods[idx], score)
             ELSE BestPeriodFrom(s, idx + 1, best_period, best_score)

\* variant of ChosenPeriod that looks at the first period only
ChosenPeriodFirstOnly(s) ==
    IF ScorePositive(compute_period_score(s, sorted_periods[1])) THEN sorted_periods[1] ELSE NoPeriod

\* "if best_period and best_score > 0: self.scheduled_sections[section_id] = best_period"
ChosenPeriod(s) ==
    LET best == BestPeriodFrom(s, 1, NoPeriod, MinusOne)
    IN  IF best[1] # NoPeriod /\ ScorePositive(best[2]) THEN best[1] ELSE NoPeriod

PlaceSection(s) ==
    IF ChosenPeriod(s) # NoPeriod
    THEN [scheduled_sections EXCEPT ![s] = ChosenPeriod(s)]
    ELSE scheduled_sections

(***************************************************************************)
(* _assign_students: hardness (multiplied by 2 * 10 * 5) and the           *)
(* student-section score                                                   *)
(***************************************************************************)
HasPref(u) == u \in DOMAIN inst.student_preferences
preferred_courses(u) == inst.student_preferences[u].preferred_courses
required_courses(u) == inst.student_preferences[u].required_courses

student_hardness(u) ==
    LET sped == IF inst.students[u].has_special_needs THEN 2 ELSE 1
        special == IF HasPref(u) /\ \E c \in {"Medical Career", "Heroes Teach"} :
                                        InSeq(c, preferred_courses(u))
                   THEN 3 ELSE 2
        num_courses == IF HasPref(u) THEN 10 + Len(preferred_courses(u)) ELSE 10
        num_required == IF HasPref(u) THEN 5 + Len(required_courses(u)) ELSE 5
    IN  sped * special * num_courses * num_required

\* stable sorted(keys, key=lambda s: -student_hardness[s])
sorted_students ==
    LET rank(i) == Cardinality({j \in StudentIds :
                        \/ student_hardness(j) > student_hardness(i)
                        \/ (student_hardness(j) = student_hardness(i) /\ j < i)})
    IN  [r \in StudentIds |-> CHOOSE i \in StudentIds : rank(i) = r - 1]

special_courses == <<"Medical Career", "Heroes Teach", "Sports Med">>

section_students(s) == {u \in StudentIds : InSeq(s, student_assignments[u])}
student_courses(u) == {section_to_course(student_assignments[u][n]) :
                          n \in DOMAIN student_assignments[u]}
student_periods(u) == {scheduled_sections[student_assignments[u][n]] :
                          n \in DOMAIN student_assignments[u]}

\* variant of SectionFull with ">" in place of ">="
SectionFullOffByOne(s) == Cardinality(section_students(s)) > inst.sections[s].capacity

\* "if len(section_students) >= section.capacity: return 0.0"
SectionFull(s) == Cardinality(section_students(s)) >= inst.sections[s].capacity

\* variant of PeriodConflict that never reports a conflict
PeriodConflictIgnored(u, s) == FALSE

\* "if period_id in student_periods: return 0.0"
PeriodConflict(u, s) == scheduled_sections[s] \in student_periods(u)

\* "if course_id in student_courses: return 0.0"
AlreadyHasCourse(u, s) == section_to_course(s) \in student_courses(u)

compute_student_section_score(u, s) ==
    LET section == inst.sections[s]
        enrolled == Cardinality(section_students(s))
        sped_count == Cardinality(section_students(s) \cap sped_students)
        penalty == IF u \in sped_students /\ sped_count >= 2 THEN Pow2(sped_count - 1) ELSE 1
        required == IF InSeq(section.course_id, required_courses(u)) THEN 2 ELSE 1
        remaining_sections == {o \in course_to_sections(section.course_id) :
                                  IsScheduled(o) /\ ~SectionFull(o)}
        few_left == IF Cardinality(remaining_sections) <= 2 THEN 2 ELSE 1
    IN  IF ~IsScheduled(s) THEN ZeroScore
        ELSE IF AlreadyHasCourse(u, s) THEN ZeroScore
        ELSE IF ~HasPref(u) \/ ~InSeq(section.course_id, preferred_courses(u)) THEN ZeroScore
        ELSE IF PeriodConflict(u, s) THEN ZeroScore
        ELSE IF SectionFull(s) THEN ZeroScore
        ELSE <<(11 * section.capacity - 10 * enrolled) * required * few_left,
               10 * section.capacity * penalty>>

\* Pass A: "max(available_sections, key=lambda x: x[1])[0]" over the scheduled
\* sections of the course with a positive score; NoSection if there is none
RECURSIVE BestSectionFrom(_, _, _, _, _)
BestSectionFrom(u, c, s, best_section, best_score) ==
    IF s > NSections THEN best_section
    ELSE IF section_to_course(s) = c /\ IsScheduled(s)
            /\ ScoreGT(compute_student_section_score(u, s), best_score)
         THEN BestSectionFrom(u, c, s + 1, s, compute_student_section_score(u, s))
         ELSE BestSectionFrom(u, c, s + 1, best_section, best_score)

BestSection(u, c) == BestSectionFrom(u, c, 1, NoSection, ZeroScore)

Enroll(u, s) == [student_assignments EXCEPT ![u] = Append(@, s)]

\* Pass B: needed_courses, best_sections and sorted_courses of one student:
\* the best sections of the needed courses, by score descending (stable)
needed_courses(u) ==
    SelectSeq(preferred_courses(u),
              LAMBDA c : c \notin student_courses(u) /\ ~InSeq(c, special_courses))

RECURSIVE BestSections(_, _, _)
BestSections(u, n, acc) ==
    IF n > Len(needed_courses(u)) THEN acc
    ELSE LET c == needed_courses(u)[n]
         IN  IF BestSection(u, c) # NoSection
                /\ ~\E m \in DOMAIN acc : section_to_course(acc[m]) = c
             THEN BestSections(u, n + 1, Append(acc, BestSection(u, c)))
             ELSE BestSections(u, n + 1, acc)

sorted_courses(u) ==
    LET best == BestSections(u, 1, <<>>)
        score(n) == compute_student_section_score(u, best[n])
        rank(n) == Cardinality({m \in DOMAIN best :
                        \/ ScoreGT(score(m), score(n))
                        \/ (~ScoreGT(score(n), score(m)) /\ m < n)})
    IN  [r \in DOMAIN best |-> best[CHOOSE n \in DOMAIN best : rank(n) = r - 1]]

\* optimize(): the two ratios of the closing log lines
total_requests ==
    LET RECURSIVE Sum(_)
        Sum(S) == IF S = {} THEN 0
                  ELSE LET u == CHOOSE v \in S : TRUE
                       IN  Len(preferred_courses(u)) + Sum(S \ {u})
    IN  Sum(DOMAIN inst.student_preferences)

(***************************************************************************)
(* GreedyOptimizer.optimize as a state machine: one step per section       *)
(* visited in a sweep, per (student, special course) in Pass A, per        *)
(* student plan and per placement in Pass B.                               *)
(***************************************************************************)
InitSched ==
    /\ JobsIdle
    /\ ApplierIdle
    /\ algorithm \in {"greedy", "milp"}
    /\ inst \in Instances(algorithm)
    /\ pc = "load"
    /\ scheduled_sections = [s \in 1..Len(inst.sections) |-> NoPeriod]
    /\ student_assignments = [u \in 1..Len(inst.students) |-> <<>>]
    /\ cur = [i |-> 1, j |-> 1, k |-> 1]
    /\ plan = <<>>
    /\ sol = [x |-> {}, y |-> {}, status |-> "LOADED"]
    /\ returned = <<>>
    /\ PipelineConstructed

\* ScheduleDataLoader.validate_relationships: the issues it collects, one for
\* the unknown teachers of the sections and one per student whose
\* preferences name a course without a section
validation_issues ==
    LET unknown_teachers == {section_to_teacher(s) : s \in SectionIds} \ DOMAIN inst.teachers
        unknown_courses(u) == {c \in {preferred_courses(u)[n] : n \in DOMAIN preferred_courses(u)} :
                                  course_to_sections(c) = {}}
    IN  (IF unknown_teachers # {} THEN {<<"teachers", 0>>} ELSE {})
        \cup {<<"student", u>> : u \in {v \in StudentIds : HasPref(v) /\ unknown_courses(v) # {}}}

\* ScheduleDataLoader.load_all: "issues = self.validate_relationships()"; the
\* issues are logged with logger.warning and self.data is returned, after
\* which the optimizer is constructed and run
LoadAll ==
    /\ pc = "load"
    /\ pc' = IF algorithm = "greedy" THEN "sweep1" ELSE "build"
    /\ UNCHANGED <<jvars, avars, pvars, returned, algorithm, inst, scheduled_sections, student_assignments,
                   cur, plan, sol>>

NextSection(next_pc) ==
    IF cur.i >= NSections
    THEN cur' = [cur EXCEPT !.i = 1] /\ pc' = next_pc
    ELSE cur' = [cur EXCEPT !.i = @ + 1] /\ pc' = pc

\* First phase: Schedule special course sections
SweepSpecial ==
    /\ pc = "sweep1"
    /\ LET s == sorted_sections[cur.i]
       IN  scheduled_sections' =
               IF section_to_course(s) \in DOMAIN special_course_periods
               THEN PlaceSection(s) ELSE scheduled_sections
    /\ NextSection("sweep2")
    /\ UNCHANGED <<jvars, avars, pvars, returned, algorithm, inst, student_assignments, plan, sol>>

\* Second phase: Schedule Sports Med sections
SweepSportsMed ==
    /\ pc = "sweep2"
    /\ LET s == sorted_sections[cur.i]
       IN  scheduled_sections' =
               IF ~IsScheduled(s) /\ section_to_course(s) = "Sports Med"
               THEN PlaceSection(s) ELSE scheduled_sections
    /\ NextSection("sweep3")
    /\ UNCHANGED <<jvars, avars, pvars, returned, algorithm, inst, student_assignments, plan, sol>>

\* Third phase: Schedule remaining sections
SweepRemaining ==
    /\ pc = "sweep3"
    /\ LET s == sorted_sections[cur.i]
       IN  scheduled_sections' =
               IF ~IsScheduled(s) THEN PlaceSection(s) ELSE scheduled_sections
    /\ NextSection("passA")
    /\ UNCHANGED <<jvars, avars, pvars, returned, algorithm, inst, student_assignments, plan, sol>>

NextStudent(next_pc) ==
    IF cur.j >= NStudents
    THEN cur' = [cur EXCEPT !.j = 1, !.k = 1] /\ pc' = next_pc
    ELSE cur' = [cur EXCEPT !.j = @ + 1, !.k = 1] /\ pc' = pc

\* First phase: Assign special courses (one special course of one student)
PassA ==
    /\ pc = "passA"
    /\ LET u == sorted_students[cur.j]
           c == special_courses[cur.k]
       IN  IF ~HasPref(u)
           THEN /\ student_assignments' = student_assignments
                /\ NextStudent("passB")
           ELSE /\ student_assignments' =
                      IF InSeq(c, preferred_courses(u)) /\ BestSection(u, c) # NoSection
                      THEN Enroll(u, BestSection(u, c)) ELSE student_assignments
                /\ IF cur.k >= Len(special_courses)
                   THEN NextStudent("passB")
                   ELSE cur' = [cur EXCEPT !.k = @ + 1] /\ pc' = pc
    /\ UNCHANGED <<jvars, avars, pvars, returned, algorithm, inst, scheduled_sections, plan, sol>>

\* Second phase: best_sections and sorted_courses of the current student
PassBPlan ==
    /\ pc = "passB"
    /\ LET u == sorted_students[cur.j]
           todo == IF HasPref(u) THEN sorted_courses(u) ELSE <<>>
       IN  IF todo = <<>>
           THEN plan' = <<>> /\ NextStudent("finish")
           ELSE plan' = todo /\ pc' = "passB_place" /\ cur' = cur
    /\ UNCHANGED <<jvars, avars, pvars, returned, algorithm, inst, scheduled_sections, student_assignments, sol>>

\* Second phase: "Check if still valid (no period conflicts)" and place
PassBPlace ==
    /\ pc = "passB_place"
    /\ LET u == sorted_students[cur.j]
           s == Head(plan)
       IN  student_assignments' =
               IF ScorePositive(compute_student_section_score(u, s))
               THEN Enroll(u, s) ELSE student_assignments
    /\ plan' = Tail(plan)
    /\ IF Len(plan) = 1
       THEN IF cur.j >= NStudents
            THEN cur' = [cur EXCEPT !.j = 1, !.k = 1] /\ pc' = "finish"
            ELSE cur' = [cur EXCEPT !.j = @ + 1, !.k = 1] /\ pc' = "passB"
       ELSE cur' = cur /\ pc' = pc
    /\ UNCHANGED <<jvars, avars, pvars, returned, algorithm, inst, scheduled_sections, sol>>

\* Schedule is a dataclass whose field "sections" has no default: the
\* constructor raises TypeError unless "sections" is among the arguments
ScheduleRequiredFields == {"sections"}
ScheduleConstructs(arguments) == ScheduleRequiredFields \subseteq arguments

\* optimize(): build the Schedule, then log section_count/total_sections and
\* total_assignments/total_requests (ZeroDivisionError when either is 0)
GreedyReturn ==
    /\ pc = "finish"
    /\ IF ~ScheduleConstructs({"sections", "assignments"})
          \/ NSections = 0 \/ total_requests = 0
       THEN pc' = "raised" /\ returned' = returned
       ELSE /\ pc' = "returned"
            /\ returned' = <<[sections |-> scheduled_sections,
                              assignments |-> {k \in StudentIds \X SectionIds :
                                                  InSeq(k[2], student_assignments[k[1]])}]>>
    /\ UNCHANGED <<jvars, avars, pvars, algorithm, inst, scheduled_sections, student_assignments, cur, plan, sol>>

(***************************************************************************)
(* MILPOptimizer.build_model: the variables that are created and the       *)
(* hard constraints.  x is the set of pairs <<s, p>> with x[s,p] = 1, y    *)
(* the set of pairs <<u, s>> with y[u,s] = 1.  The linearization           *)
(* z <= y, z <= x, z >= y + x - 1 fixes z[u,s,p] to y[u,s] /\ x[s,p]; the  *)
(* soft constraints (capacity_violation, missed_request) exclude no x, y.  *)
(***************************************************************************)
\* section_period: for a restricted course "for period_id in allowed_periods:
\* if period_id in self.periods", for the others every period
section_period ==
    {k \in SectionIds \X PeriodIds :
        section_to_course(k[1]) \in DOMAIN course_period_restrictions
            => InSeq(k[2], course_period_restrictions[section_to_course(k[1])])}

\* student_section: only for sections that match the student's preferences
student_section ==
    {k \in StudentIds \X SectionIds :
        HasPref(k[1]) /\ InSeq(section_to_course(k[2]), preferred_courses(k[1]))}

PeriodsOf(x, s) == {p \in PeriodIds : <<s, p>> \in x}

\* "special_section_{id}_must_be_assigned": sum over the allowed periods == 1
SpecialSectionMustBeAssigned(x) ==
    \A s \in SectionIds :
        section_to_course(s) \in DOMAIN course_period_restrictions
            => Cardinality(PeriodsOf(x, s)) = 1

\* "section_{id}_assigned_once": sum over the periods <= 1
SectionAssignedOnce(x) ==
    \A s \in SectionIds :
        section_to_course(s) \notin DOMAIN course_period_restrictions
            => Cardinality(PeriodsOf(x, s)) <= 1

\* "teacher_{t}_period_{p}_no_overlap", for the teachers of the teacher table
TeacherNoOverlap(x) ==
    \A p \in PeriodIds : \A t \in DOMAIN inst.teachers :
        Cardinality({s \in teacher_to_sections(t) : <<s, p>> \in x}) <= 1

\* "teacher_{t}_unavailable_period_{p}"
TeacherUnavailability(x) ==
    \A t \in DOMAIN inst.teachers : \A p \in inst.teachers[t].unavailable_periods :
        \A s \in teacher_to_sections(t) : <<s, p>> \notin x

\* "student_{u}_section_{s}_scheduled": y[u,s] <= sum_p x[s,p]
StudentSectionScheduled(x, y) ==
    \A k \in y : PeriodsOf(x, k[2]) # {}

\* "student_{u}_period_{p}_no_overlap": sum_s z[u,s,p] <= 1
StudentNoOverlap(x, y) ==
    \A u \in StudentIds : \A p \in PeriodIds :
        Cardinality({s \in SectionIds : <<u, s>> \in y /\ <<s, p>> \in x}) <= 1

\* "hasattr(student, 'sped_status') and student.sped_status"
milp_sped_students ==
    {u \in StudentIds : "sped_status" \in DOMAIN inst.students[u]
                        /\ inst.students[u].sped_status}

\* "section_{id}_sped_limit"
SpedLimit(y) ==
    \A s \in SectionIds :
        Cardinality({u \in milp_sped_students : <<u, s>> \in y}) <= SpedCap

Feasible(x, y) ==
    /\ SpecialSectionMustBeAssigned(x)
    /\ SectionAssignedOnce(x)
    /\ TeacherNoOverlap(x)
    /\ TeacherUnavailability(x)
    /\ StudentSectionScheduled(x, y)
    /\ StudentNoOverlap(x, y)
    /\ SpedLimit(y)

\* model.optimize() ends with an incumbent: any feasible point of the model
\* (time limit, 10% gap and interrupts make every feasible point a possible one)
MILPSolve ==
    /\ pc = "build"
    /\ \E x \in SUBSET section_period :
         /\ SpecialSectionMustBeAssigned(x) /\ SectionAssignedOnce(x)
         /\ TeacherNoOverlap(x) /\ TeacherUnavailability(x)
         /\ \E y \in SUBSET student_section :
              /\ Feasible(x, y)
              /\ sol' = [x |-> x, y |-> y, status |-> "SOLUTION"]
    /\ pc' = "solved"
    /\ UNCHANGED <<jvars, avars, pvars, returned, algorithm, inst, scheduled_sections, student_assignments, cur, plan>>

\* model.optimize() ends without a solution: the model is infeasible
MILPInfeasible ==
    /\ pc = "build"
    /\ ~\E x \in SUBSET section_period :
           /\ SpecialSectionMustBeAssigned(x) /\ SectionAssignedOnce(x)
           /\ TeacherNoOverlap(x) /\ TeacherUnavailability(x)
    /\ pc' = "infeasible"
    /\ sol' = [sol EXCEPT !.status = "INFEASIBLE"]
    /\ UNCHANGED <<jvars, avars, pvars, returned, algorithm, inst, scheduled_sections, student_assignments, cur, plan>>

\* model.optimize() raises (license, memory, internal error): "except Exception"
MILPSolverError ==
    /\ pc = "build"
    /\ pc' = "solver_error"
    /\ sol' = [sol EXCEPT !.status = "ERROR"]
    /\ UNCHANGED <<jvars, avars, pvars, returned, algorithm, inst, scheduled_sections, student_assignments, cur, plan>>

\* "for period_id in self.periods: if var and var.x > 0.5: assigned_period = period_id; break"
ExtractPeriod(s) ==
    IF PeriodsOf(sol.x, s) = {} THEN NoPeriod
    ELSE inst.periods[CHOOSE i \in DOMAIN inst.periods :
                         /\ inst.periods[i].id \in PeriodsOf(sol.x, s)
                         /\ \A j \in 1..(i - 1) : inst.periods[j].id \notin PeriodsOf(sol.x, s)].id

\* the Schedule that the extraction fills: sections and assignments only for a
\* status with an incumbent ("SOLUTION": OPTIMAL, TIME_LIMIT, SOLUTION_LIMIT,
\* INTERRUPTED or SUBOPTIMAL), otherwise the Schedule as constructed
ExtractSchedule ==
    IF sol.status = "SOLUTION"
    THEN [sections |-> [s \in SectionIds |-> ExtractPeriod(s)], assignments |-> sol.y]
    ELSE [sections |-> <<>>, assignments |-> {}]

\* the rest of optimize(): "return Schedule()" in the except clause, or
\* "schedule = Schedule()" followed by the extraction; both calls pass no argument
MILPReturn ==
    /\ pc \in {"solved", "infeasible", "solver_error"}
    /\ IF ScheduleConstructs({})
       THEN pc' = "milp_returned" /\ returned' = <<ExtractSchedule>>
       ELSE pc' = "milp_raised" /\ returned' = returned
    /\ UNCHANGED <<jvars, avars, pvars, algorithm, inst, scheduled_sections, student_assignments, cur, plan, sol>>

NextSched ==
    \/ LoadAll
    \/ SweepSpecial
    \/ SweepSportsMed
    \/ SweepRemaining
    \/ PassA
    \/ PassBPlan
    \/ PassBPlace
    \/ GreedyReturn
    \/ MILPSolve
    \/ MILPInfeasible
    \/ MILPSolverError
    \/ MILPReturn

SpecSched == InitSched /\ [][NextSched]_vars

(***************************************************************************)
(* The schedule an optimizer holds: the greedy's scheduled_sections and    *)
(* student_assignments at every step, the MILP's incumbent once solved.    *)
(***************************************************************************)
SectionPeriods(s) ==
    IF algorithm = "greedy"
    THEN IF IsScheduled(s) THEN {scheduled_sections[s]} ELSE {}
    ELSE PeriodsOf(sol.x, s)

Assignments ==
    IF algorithm = "greedy"
    THEN {k \in StudentIds \X SectionIds : InSeq(k[2], student_assignments[k[1]])}
    ELSE sol.y

SectionsOf(u) == {s \in SectionIds : <<u, s>> \in Assignments}

PeriodName(p) ==
    inst.periods[CHOOSE i \in DOMAIN inst.periods : inst.periods[i].id = p].name

RunSucceeded == pc \in {"returned", "solved"}

\* C1: no two distinct scheduled sections with the same teacher_id are in the
\* same period, in the greedy after every placement and in every MILP solution.
C1_TeacherNoOverlap ==
    \A s1, s2 \in SectionIds :
        (s1 # s2 /\ section_to_teacher(s1) = section_to_teacher(s2))
            => SectionPeriods(s1) \cap SectionPeriods(s2) = {}

C3_GreedyCapacity ==
    algorithm = "greedy" =>
        \A s \in SectionIds : Cardinality(section_students(s)) <= inst.sections[s].capacity

\* C3, the case: the greedy has finished with a section filled to its capacity
\* and a student who wanted the course, is free in that period, and was left out.
C3_Witness ==
    /\ algorithm = "greedy" /\ pc = "returned"
    /\ \E s \in SectionIds : \E u \in StudentIds \ section_students(s) :
         /\ IsScheduled(s)
         /\ Cardinality(section_students(s)) = inst.sections[s].capacity
         /\ HasPref(u) /\ InSeq(section_to_course(s), preferred_courses(u))
         /\ section_to_course(s) \notin student_courses(u)
         /\ scheduled_sections[s] \notin student_periods(u)

\* C4: every scheduled section whose teacher is t has a period that is not in
\* t.unavailable_periods, in the greedy and in every MILP solution.
C4_TeacherAvailable ==
    \A s \in SectionIds :
        section_to_teacher(s) \in DOMAIN inst.teachers
            => SectionPeriods(s) \cap inst.teachers[section_to_teacher(s)].unavailable_periods = {}

\* C4, the case: a section is scheduled in the second period because its
\* teacher is unavailable in the first one.
C4_Witness ==
    \E s \in SectionIds :
        /\ section_to_teacher(s) \in DOMAIN inst.teachers
        /\ "P1" \in PeriodIds
        /\ "P1" \in inst.teachers[section_to_teacher(s)].unavailable_periods
        /\ SectionPeriods(s) = {"R1"}

\* C5: every scheduled section of a restricted course is in a period whose
\* name is in the course's allowed set, also when period ids differ from names.
C5_RestrictedByName ==
    \A s \in SectionIds :
        section_to_course(s) \in DOMAIN course_period_restrictions
            => \A p \in SectionPeriods(s) :
                   InSeq(PeriodName(p), course_period_restrictions[section_to_course(s)])

\* C6: in every schedule of a successful greedy or MILP run each student is
\* assigned to at most one section of any given course.
C6_OneSectionPerCourse ==
    RunSucceeded =>
        \A u \in StudentIds : \A s1, s2 \in SectionsOf(u) :
            s1 # s2 => section_to_course(s1) # section_to_course(s2)

\* C7: after a successful greedy or MILP run every section has at most one
\* period, and every section of a restricted course has exactly one period,
\* which is one of the course's allowed periods.
C7_RestrictedExactlyOne ==
    RunSucceeded =>
        \A s \in SectionIds :
            /\ Cardinality(SectionPeriods(s)) <= 1
            /\ section_to_course(s) \in DOMAIN course_period_restrictions
                 => /\ Cardinality(SectionPeriods(s)) = 1
                    /\ \A p \in SectionPeriods(s) :
                         InSeq(PeriodName(p), course_period_restrictions[section_to_course(s)])

\* C8: in every solution of the MILP model each section has at most 12
\* assigned students whose has_special_needs flag is set.
C8_SpedCap ==
    algorithm = "milp" =>
        \A s \in SectionIds :
            Cardinality({u \in sped_students : <<u, s>> \in sol.y}) <= SpedCap

(***************************************************************************)
(* OptimizationPipeline.run.  The catalog is the set of section ids of     *)
(* Sections_Information.csv; the stages are seen through their outcomes:   *)
(* the greedy stage returns a schedule or raises, MILPOptimizer.optimize   *)
(* returns a schedule with or without a scheduled section or raises, the   *)
(* utilization report names any subset of the catalog as underutilized,    *)
(* and the agent stage writes any catalog or raises.                       *)
(***************************************************************************)
MaxCatalogIds == 3

CatalogIds == 1..MaxCatalogIds
Catalogs == (SUBSET CatalogIds) \ {{}}

MilpOutcomes == {"scheduled", "empty", "gurobi_error", "error"}

OptimizerIdle ==
    /\ algorithm = "greedy"
    /\ inst = [periods |-> <<>>, teachers |-> <<>>, sections |-> <<>>,
               students |-> <<>>, student_preferences |-> <<>>]
    /\ pc = "idle"
    /\ scheduled_sections = <<>>
    /\ student_assignments = <<>>
    /\ cur = [i |-> 1, j |-> 1, k |-> 1]
    /\ plan = <<>>
    /\ sol = [x |-> {}, y |-> {}, status |-> "LOADED"]
    /\ returned = <<>>

\* run() is entered: "self.iteration = 0; overall_result = None"
InitPipe ==
    /\ JobsIdle
    /\ OptimizerIdle
    /\ ApplierIdle
    /\ ppc = "while"
    /\ iteration = 0
    /\ catalog \in Catalogs
    /\ milp_outcome = "none"
    /\ schedule = "None"
    /\ underutilized = Unassigned
    /\ new_input_files = Unassigned
    /\ oracle = "none"
    /\ last_success = <<>>
    /\ overall_result = <<>>
    /\ caught = "None"
    /\ metrics_iterations = 0
    /\ results_iterations = <<>>

\* _check_if_changes_made: the row count or the set of section ids differs
check_if_changes_made(original, new) ==
    \/ Cardinality(original) # Cardinality(new)
    \/ original # new

\* variant of _run_milp_optimization's choice that keeps a MILP schedule
\* without any scheduled section
SelectScheduleKeepsEmpty(outcome) ==
    IF outcome \in {"scheduled", "empty"} THEN "milp" ELSE "greedy"

\* _run_milp_optimization: the MILP schedule if it has a scheduled section;
\* warm_start if it has none, on GurobiError and on any other Exception
SelectSchedule(outcome) ==
    CASE outcome = "scheduled" -> "milp"
      [] outcome = "empty" -> "greedy"
      [] outcome = "gurobi_error" -> "greedy"
      [] outcome = "error" -> "greedy"

\* variant of the exit test after the analysis that always leaves the loop
ExitAlways(under) == TRUE

\* "if len(underutilized_sections) == 0 or self.iteration == self.max_iterations - 1"
ExitAfterAnalysis(under) ==
    Cardinality(under) = 0 \/ iteration = max_iterations - 1

\* "except Exception as e": RuntimeError on the first iteration, otherwise
\* "overall_result = last_success; break"
ExceptHandler(stage) ==
    /\ caught' = stage
    /\ IF iteration = 0
       THEN ppc' = "raised" /\ overall_result' = overall_result
       ELSE ppc' = "final" /\ overall_result' = last_success

\* "while self.iteration < self.max_iterations"
LoopTest ==
    /\ ppc = "while"
    /\ IF iteration < max_iterations
       THEN /\ ppc' = "greedy"
            /\ milp_outcome' = "none" /\ schedule' = "None"
            /\ underutilized' = Unassigned /\ new_input_files' = Unassigned
            /\ oracle' = "none"
       ELSE /\ ppc' = "final"
            /\ UNCHANGED <<milp_outcome, schedule, underutilized, new_input_files, oracle>>
    /\ UNCHANGED <<jvars, avars, svars, iteration, catalog, last_success, overall_result, caught,
                   metrics_iterations, results_iterations>>

\* _run_greedy_optimization returns the warm start, or raises
RunGreedy ==
    /\ ppc = "greedy"
    /\ \E raised \in BOOLEAN :
         IF raised THEN ExceptHandler("greedy")
         ELSE ppc' = "milp" /\ UNCHANGED <<caught, overall_result>>
    /\ UNCHANGED <<jvars, avars, svars, oracle, iteration, catalog, milp_outcome, schedule, underutilized,
                   new_input_files, last_success, metrics_iterations, results_iterations>>

\* _run_milp_optimization: every outcome of the MILP stage yields a schedule
RunMilp ==
    /\ ppc = "milp"
    /\ \E outcome \in MilpOutcomes :
         /\ milp_outcome' = outcome
         /\ schedule' = SelectSchedule(outcome)
    /\ ppc' = "analyze"
    /\ UNCHANGED <<jvars, avars, svars, oracle, iteration, catalog, underutilized, new_input_files, last_success,
                   overall_result, caught, metrics_iterations, results_iterations>>

\* last_success, the utilization report and the first exit test
Analyze ==
    /\ ppc = "analyze"
    /\ last_success' = <<[iteration |-> iteration, schedule |-> schedule]>>
    /\ \E under \in SUBSET catalog :
         /\ underutilized' = [known |-> TRUE, ids |-> under]
         /\ IF ExitAfterAnalysis(under)
            THEN ppc' = "final" /\ overall_result' = last_success'
            ELSE ppc' = "agent" /\ overall_result' = overall_result
    /\ UNCHANGED <<jvars, avars, svars, oracle, iteration, catalog, milp_outcome, schedule, new_input_files,
                   caught, metrics_iterations, results_iterations>>

\* How the oracle call can end.  "actions": a response with a list of
\* well-formed actions.  "request_failed": requests.post raised (network
\* error, timeout), the status was not 200, or the body was not the expected
\* JSON.  "no_json": the text holds no parsable JSON list.  "malformed_actions":
\* the list parses but an entry lacks "section_id" or "action".
OracleOutcomes == {"actions", "request_failed", "no_json", "malformed_actions"}

\* _call_claude_api after a failed request runs the fallback, whose first
\* statement reads the name underutilized_sections, which is not defined in
\* that method: NameError.  _apply_schedule_actions reads action["section_id"]
\* and action["action"]: KeyError on a malformed entry.
AgentRaises(outcome) == outcome \in {"request_failed", "malformed_actions"}

\* the catalogs _apply_schedule_actions can write: the same catalog for an
\* empty action list (_parse_claude_response returns [] without a JSON list)
WrittenCatalogs(outcome) == IF outcome = "no_json" THEN {catalog} ELSE Catalogs

\* _run_claude_agent writes the new input files, or raises
RunAgent ==
    /\ ppc = "agent"
    /\ \E outcome \in OracleOutcomes :
         /\ oracle' = outcome
         /\ IF AgentRaises(outcome)
            THEN /\ ExceptHandler("agent")
                 /\ UNCHANGED new_input_files
            ELSE /\ \E new \in WrittenCatalogs(outcome) :
                      new_input_files' = [known |-> TRUE, ids |-> new]
                 /\ ppc' = "check"
                 /\ UNCHANGED <<caught, overall_result>>
    /\ UNCHANGED <<jvars, avars, svars, iteration, catalog, milp_outcome, schedule, underutilized,
                   last_success, metrics_iterations, results_iterations>>

\* the second exit test, and the end of the loop body:
\* "self.iteration += 1; self.metrics['iterations'] = self.iteration + 1"
CheckChanges ==
    /\ ppc = "check"
    /\ IF ~check_if_changes_made(catalog, new_input_files.ids)
       THEN /\ ppc' = "final"
            /\ overall_result' = last_success
            /\ UNCHANGED <<iteration, catalog, metrics_iterations>>
       ELSE /\ ppc' = "while"
            /\ catalog' = new_input_files.ids
            /\ iteration' = iteration + 1
            /\ metrics_iterations' = iteration + 2
            /\ UNCHANGED overall_result
    /\ UNCHANGED <<jvars, avars, svars, oracle, milp_outcome, schedule, underutilized, new_input_files,
                   last_success, caught, results_iterations>>

\* after the loop: "results = {..., 'iterations': self.iteration + 1}"
Finish ==
    /\ ppc = "final"
    /\ results_iterations' = <<iteration + 1>>
    /\ ppc' = "returned"
    /\ UNCHANGED <<jvars, avars, svars, oracle, iteration, catalog, milp_outcome, schedule, underutilized,
                   new_input_files, last_success, overall_result, caught, metrics_iterations>>

NextPipe ==
    \/ LoopTest
    \/ RunGreedy
    \/ RunMilp
    \/ Analyze
    \/ RunAgent
    \/ CheckChanges
    \/ Finish

SpecPipe == InitPipe /\ [][NextPipe]_vars

InLoopBody == ppc \in {"greedy", "milp", "analyze", "agent", "check"}
Stopped == ppc \in {"returned", "raised"}

\* the underutilized set of the iteration in which the run stopped was empty
UnderutilizedEmpty == underutilized.known /\ underutilized.ids = {}

\* the agent stage of that iteration left the catalog structurally unchanged
NoStructuralChange ==
    new_input_files.known /\ ~check_if_changes_made(catalog, new_input_files.ids)

\* C9 as stated: run executes at most max_iterations iterations, and whenever
\* it stops before iteration max_iterations the underutilized set of that
\* iteration was empty or the oracle's actions made no structural change.
C9_OnlyTwoEarlyExits ==
    /\ InLoopBody => iteration < max_iterations
    /\ Stopped => iteration + 1 <= max_iterations
    /\ (Stopped /\ iteration + 1 < max_iterations)
         => (UnderutilizedEmpty \/ NoStructuralChange)

\* C9 (amended): run executes at most max_iterations iterations, and whenever
\* it stops before iteration max_iterations the underutilized set of that
\* iteration was empty, or the oracle's actions made no structural change, or
\* a stage of that iteration raised an exception that run() caught.
C9_EarlyExits ==
    /\ InLoopBody => iteration < max_iterations
    /\ Stopped => iteration + 1 <= max_iterations
    /\ (Stopped /\ iteration + 1 < max_iterations)
         => (UnderutilizedEmpty \/ NoStructuralChange \/ caught # "None")

\* C9, the case: the run returned before the last iteration, after an
\* iteration whose underutilized set was not empty and whose agent stage raised.
C9_Witness ==
    /\ ppc = "returned"
    /\ iteration > 0 /\ iteration + 1 < max_iterations
    /\ underutilized.known /\ underutilized.ids # {}
    /\ ~new_input_files.known
    /\ caught = "agent"

\* C10: in each iteration the driver uses the MILP schedule when the MILP stage
\* returned a schedule with a scheduled section, and the greedy warm start
\* otherwise (no scheduled section, solver error, any other error); a MILP
\* failure is never the exception that ends the iteration.
C10_ScheduleSelection ==
    /\ milp_outcome # "none"
         => schedule = IF milp_outcome = "scheduled" THEN "milp" ELSE "greedy"
    /\ ppc \in {"analyze", "agent", "check"} => milp_outcome # "none"
    /\ caught \in {"None", "greedy", "agent"}

\* C10, the case: the MILP stage raised, and the iteration goes on to the
\* analysis with the greedy warm start.
C10_Witness ==
    /\ ppc = "analyze"
    /\ milp_outcome \in {"gurobi_error", "error"}
    /\ schedule = "greedy"
    /\ caught = "None"

(***************************************************************************)
(* MILPOptimizer.optimize: what it hands back                              *)
(***************************************************************************)
MilpEnded == algorithm = "milp" /\ pc \in {"milp_returned", "milp_raised"}

\* C11: when the solver ends with an incumbent (optimal, time limit,
\* suboptimal, interrupted), optimize returns a Schedule in which each
\* section's period is the unique p with x[s,p] = 1 (unset if none) and the
\* assignments are exactly the pairs (u,s) with y[u,s] = 1.
C11_MilpExtraction ==
    (MilpEnded /\ sol.status = "SOLUTION") =>
        /\ pc = "milp_returned"
        /\ Len(returned) = 1
        /\ \A s \in SectionIds :
             IF PeriodsOf(sol.x, s) = {}
             THEN returned[1].sections[s] = NoPeriod
             ELSE PeriodsOf(sol.x, s) = {returned[1].sections[s]}
        /\ returned[1].assignments = sol.y

\* C12: when the model is infeasible or the solver raises, optimize returns an
\* empty Schedule (no section scheduled, no assignment) instead of raising.
C12_MilpEmptyOnFailure ==
    (MilpEnded /\ sol.status \in {"INFEASIBLE", "ERROR"}) =>
        /\ pc = "milp_returned"
        /\ Len(returned) = 1
        /\ \A s \in DOMAIN returned[1].sections : returned[1].sections[s] = NoPeriod
        /\ returned[1].assignments = {}

\* the oracle call of the current iteration did not deliver usable actions
OracleFailed == oracle \in {"request_failed", "no_json", "malformed_actions"}

\* C13: any oracle failure in any iteration, including the first, results in
\* zero actions being applied: the catalog is unchanged, the loop ends through
\* the no-structural-change guard, and the run returns that iteration's
\* schedule without an error.
C13_OracleFailureIsNoChange ==
    OracleFailed =>
        /\ caught = "None"
        /\ ppc # "raised"
        /\ NoStructuralChange
        /\ ppc = "returned" => overall_result = <<[iteration |-> iteration, schedule |-> schedule]>>

\* C14: the run ends with an error only when no schedule was ever produced
\* (once a greedy stage has produced a schedule, no later MILP, oracle or
\* action failure makes the run fail), and a run that reports success has
\* produced a schedule.
C14_FailsOnlyWithoutSchedule ==
    /\ ppc = "raised" => (schedule = "None" /\ last_success = <<>>)
    /\ ppc = "returned" => overall_result # <<>>

(***************************************************************************)
(* OptimizationPipeline._apply_schedule_actions and the four action        *)
(* handlers.  A section id is the sequence of its characters, so that the  *)
(* parsing and the formatting of ids are computed as the code computes     *)
(* them.  A row of sections_df carries its index label: drop() keeps the   *)
(* labels of the remaining rows, and ".loc[len(df)] = row" addresses a row *)
(* by label.                                                               *)
(***************************************************************************)
MaxRows == 3
MaxActions == 2

MergeCap == 35
SplitThreshold == 30
MinHalf == 15
TeacherLoadLimit == 6

DigitChars == <<"0", "1", "2", "3", "4", "5", "6", "7", "8", "9">>

SetMin(S) == CHOOSE m \in S : \A o \in S : m <= o
SetMax(S) == CHOOSE m \in S : \A o \in S : m >= o

\* s[1:].split('_')[0]
base(s) ==
    LET rest == Tail(s)
        cuts == {i \in DOMAIN rest : rest[i] = "_"}
    IN  IF cuts = {} THEN rest ELSE SubSeq(rest, 1, SetMin(cuts) - 1)

\* int(base) raises ValueError (the ids of the model hold no sign and no blank)
int_raises(b) == b = <<>> \/ \E i \in DOMAIN b : ~InSeq(b[i], DigitChars)

RECURSIVE int_value(_)
int_value(b) ==
    IF b = <<>> THEN 0
    ELSE 10 * int_value(SubSeq(b, 1, Len(b) - 1))
         + (CHOOSE d \in DOMAIN DigitChars : DigitChars[d] = b[Len(b)]) - 1

\* the list section_numbers, as a set (only its maximum is used): the ids
\* with s.startswith("S") whose base int() accepts
section_numbers(df) ==
    {int_value(base(df[i].id)) :
        i \in {j \in DOMAIN df : /\ Len(df[j].id) >= 1
                                 /\ df[j].id[1] = "S"
                                 /\ ~int_raises(base(df[j].id))}}

new_section_num_by_count(df) == Len(df) + 1

new_section_num(df) ==
    IF section_numbers(df) # {} THEN SetMax(section_numbers(df)) + 1 ELSE 1

\* f"S{new_section_num:03d}": at least three digits, zero-padded (0 <= n < 10000)
new_section_id(df) ==
    LET n == new_section_num(df)
    IN  <<"S">>
        \o (IF n >= 1000 THEN <<DigitChars[(n \div 1000) + 1]>> ELSE <<>>)
        \o <<DigitChars[((n \div 100) % 10) + 1], DigitChars[((n \div 10) % 10) + 1], DigitChars[(n % 10) + 1]>>

\* the ids of the input catalogs
IdPools ==
    << << <<"S","0","0","1">>, <<"S","0","0","2">>, <<"S","0","0","3">>, <<"S","0","0","4">>, <<"S","0","0","5">> >>,
       << <<"S","0","0","2","_","B">>, <<"S","0","0","4">>, <<"S","0","0","1">>, <<"S","3">>, <<"S","0","1","0">> >>,
       << <<"X","9">>, <<"S","A","B">>, <<"S","_","1">>, <<"S","0","0","7">>, <<"S","7","_","A">> >> >>
MissingId == <<"S", "9", "9", "9">>

DepartmentOf(course) == IF course = "C1" THEN "Science" ELSE "English"

\* Sections_Information.csv as pd.read_csv returns it: the rows get the
\* labels 0, 1, 2, ...
SectionTables ==
    LET CoursePatterns ==
            { [i \in 1..MaxRows |-> "C1"],
              [i \in 1..MaxRows |-> IF i = MaxRows THEN "C2" ELSE "C1"],
              [i \in 1..MaxRows |-> IF i = 1 THEN "C1" ELSE "C2"] }
        TeacherPatterns ==
            { [i \in 1..MaxRows |-> "T1"],
              [i \in 1..MaxRows |-> IF i % 2 = 1 THEN "T1" ELSE "T2"] }
        SeatChoices == {10, 33}
        \* one teacher at the load limit: S001 .. S006, all of course C2 and teacher T2
        FullLoad ==
            [i \in 1..TeacherLoadLimit |->
                [label |-> i - 1, id |-> <<"S", "0", "0", DigitChars[i + 1]>>, course |-> "C2",
                 teacher |-> "T2", department |-> DepartmentOf("C2"), capacity |-> 33]]
    IN  { [i \in 1..MaxRows |->
              [label |-> i - 1, id |-> IdPools[k][i], course |-> cs[i], teacher |-> ts[i],
               department |-> DepartmentOf(cs[i]), capacity |-> seats]] :
          k \in DOMAIN IdPools, cs \in CoursePatterns, ts \in TeacherPatterns, seats \in SeatChoices }
        \cup {FullLoad}

\* Teacher_Info.csv: "Teacher ID", "Department"
teachers_df ==
    << [id |-> "T1", department |-> "Science"],
       [id |-> "T2", department |-> "English"],
       [id |-> "T3", department |-> "Science"] >>

\* a cell of "Preferred Sections": NaN, or the list its text splits into
\* (the text "" is the list <<>>)
NaN == [notna |-> FALSE, sections |-> <<>>]

\* the preference tables of the inputs: duplicate-free lists over the ids of
\* the catalog (the catalog of the teacher at the load limit comes with one table)
PreferenceTables(df) ==
    IF Len(df) > MaxRows
    THEN { << [notna |-> TRUE, sections |-> <<df[1].id, df[2].id>>],
              [notna |-> TRUE, sections |-> <<df[2].id, df[1].id>>] >> }
    ELSE { <<c1, c2>> : c1 \in {NaN, [notna |-> TRUE, sections |-> <<df[1].id, df[2].id>>]},
                        c2 \in {[notna |-> TRUE, sections |-> <<df[Len(df)].id>>],
                                [notna |-> TRUE, sections |-> <<df[2].id, df[1].id>>]} }

\* row["Preferred Sections"].split(";"): "".split(";") is [""]
split(cell) == IF cell.sections = <<>> THEN << <<>> >> ELSE cell.sections
\* ";".join(sections): both [] and [""] give ""
join(list) == [notna |-> TRUE, sections |-> IF list = << <<>> >> THEN <<>> ELSE list]

\* list.remove(x): removes the first occurrence
list_remove(list, x) ==
    LET k == SetMin({i \in DOMAIN list : list[i] = x})
    IN  SubSeq(list, 1, k - 1) \o SubSeq(list, k + 1, Len(list))

\* any(sections_df["Section ID"] == section_id)
any_section(df, section_id) == \E i \in DOMAIN df : df[i].id = section_id
\* sections_df[sections_df["Section ID"] == section_id].iloc[0]
iloc0(df, section_id) == df[SetMin({i \in DOMAIN df : df[i].id = section_id})]
\* sections_df.drop(sections_df[sections_df["Section ID"] == section_id].index, inplace=True)
drop(df, section_id) == SelectSeq(df, LAMBDA r : r.id # section_id)
\* sections_df.loc[sections_df["Section ID"] == section_id, "# of Seats Available"] = seats
set_seats(df, section_id, seats) ==
    [i \in DOMAIN df |-> IF df[i].id = section_id THEN [df[i] EXCEPT !.capacity = seats] ELSE df[i]]
\* sections_df.loc[len(sections_df)] = new_row: the row labelled len(df) is
\* overwritten if there is one, else the row is appended under that label
loc_setitem(df, new_row) ==
    LET row == [new_row EXCEPT !.label = Len(df)]
    IN  IF \E i \in DOMAIN df : df[i].label = Len(df)
        THEN [i \in DOMAIN df |-> IF df[i].label = Len(df) THEN row ELSE df[i]]
        ELSE Append(df, row)

\* sections_df.groupby("Teacher Assigned").size().to_dict().get(teacher, 0)
teacher_counts(df, teacher) == Cardinality({i \in DOMAIN df : df[i].teacher = teacher})

\* Series.unique(): the values in order of first appearance
RECURSIVE unique(_)
unique(seq) ==
    IF seq = <<>> THEN <<>>
    ELSE LET u == unique(SubSeq(seq, 1, Len(seq) - 1))
         IN  IF InSeq(seq[Len(seq)], u) THEN u ELSE Append(u, seq[Len(seq)])

\* sections_df[sections_df["Course ID"] == course_id]["Teacher Assigned"].unique()
qualified_teachers(df, course) ==
    LET rows == SelectSeq(df, LAMBDA r : r.course = course)
    IN  unique([i \in DOMAIN rows |-> rows[i].teacher])
\* teachers_df[teachers_df["Department"] == department]["Teacher ID"].unique()
dept_teachers(department) ==
    LET rows == SelectSeq(teachers_df, LAMBDA r : r.department = department)
    IN  unique([i \in DOMAIN rows |-> rows[i].id])

----
\* _merge_sections
uncapped_capacity(a, b) == a + b
total_capacity(a, b) == IF a + b > MergeCap THEN MergeCap ELSE a + b

\* variant of MergeRefused without the same-course check
MergeRefusedIgnoringCourse(df, section_id1, section_id2) ==
    \/ ~any_section(df, section_id1)
    \/ ~any_section(df, section_id2)

MergeRefused(df, section_id1, section_id2) ==
    \/ ~any_section(df, section_id1)
    \/ ~any_section(df, section_id2)
    \/ iloc0(df, section_id1).course # iloc0(df, section_id2).course

merge_sections(df, section_id1, section_id2) ==
    IF MergeRefused(df, section_id1, section_id2) THEN df
    ELSE drop(set_seats(df, section_id1,
                        total_capacity(iloc0(df, section_id1).capacity, iloc0(df, section_id2).capacity)),
              section_id2)

merge_preferences(df, prefs, section_id1, section_id2) ==
    LET merge_cell(cell) ==
            IF ~cell.notna \/ ~InSeq(section_id2, split(cell)) THEN cell
            ELSE LET removed == list_remove(split(cell), section_id2)
                 IN  join(IF InSeq(section_id1, removed) THEN removed ELSE Append(removed, section_id1))
    IN  IF MergeRefused(df, section_id1, section_id2) THEN prefs
        ELSE [i \in DOMAIN prefs |-> merge_cell(prefs[i])]

\* _remove_section
RemoveRefusedWithoutCourseCheck(df, section_id) ==
    \/ ~any_section(df, section_id)
    \/ teacher_counts(df, iloc0(df, section_id).teacher) <= 1

RemoveRefused(df, section_id) ==
    \/ ~any_section(df, section_id)
    \/ teacher_counts(df, iloc0(df, section_id).teacher) <= 1
    \/ Cardinality({i \in DOMAIN df : df[i].course = iloc0(df, section_id).course}) <= 1

remove_section(df, section_id) ==
    IF RemoveRefused(df, section_id) THEN df ELSE drop(df, section_id)

remove_preferences(df, prefs, section_id) ==
    LET remove_cell(cell) ==
            IF ~cell.notna \/ ~InSeq(section_id, split(cell)) THEN cell
            ELSE join(list_remove(split(cell), section_id))
    IN  IF RemoveRefused(df, section_id) THEN prefs
        ELSE [i \in DOMAIN prefs |-> remove_cell(prefs[i])]

\* _split_section
new_capacity1(original_capacity) == (original_capacity \div 2) + (original_capacity % 2)
new_capacity2(original_capacity) == original_capacity \div 2

\* new_teacher of _split_section: <<>> when none is found
split_new_teacher(df, section) ==
    LET qualified == SelectSeq(qualified_teachers(df, section.course),
                               LAMBDA t : t # section.teacher /\ teacher_counts(df, t) < TeacherLoadLimit)
        potential == IF qualified # <<>> THEN qualified
                     ELSE SelectSeq(dept_teachers(section.department),
                                    LAMBDA t : t # section.teacher /\ teacher_counts(df, t) < TeacherLoadLimit)
    IN  IF potential = <<>> /\ teacher_counts(df, section.teacher) < TeacherLoadLimit THEN <<section.teacher>>
        ELSE IF potential # <<>> THEN <<potential[1]>>
        ELSE <<>>

SplitRefused(df, section_id) ==
    \/ ~any_section(df, section_id)
    \/ iloc0(df, section_id).capacity <= SplitThreshold
    \/ new_capacity1(iloc0(df, section_id).capacity) < MinHalf
    \/ new_capacity2(iloc0(df, section_id).capacity) < MinHalf
    \/ split_new_teacher(df, iloc0(df, section_id)) = <<>>

split_section(df, section_id) ==
    IF SplitRefused(df, section_id) THEN df
    ELSE LET section == iloc0(df, section_id)
             new_row == [section EXCEPT !.id = new_section_id(df),
                                        !.capacity = new_capacity2(section.capacity),
                                        !.teacher = split_new_teacher(df, section)[1]]
         IN  loc_setitem(set_seats(df, section_id, new_capacity1(section.capacity)), new_row)

\* _add_section
add_potential_teachers(df, section) ==
    LET qualified == SelectSeq(qualified_teachers(df, section.course),
                               LAMBDA t : teacher_counts(df, t) < TeacherLoadLimit)
    IN  IF qualified # <<>> THEN qualified
        ELSE SelectSeq(dept_teachers(section.department),
                       LAMBDA t : teacher_counts(df, t) < TeacherLoadLimit)

department_capacity(department) ==
    CASE department = "Special" -> 15
      [] department = "PE" -> 35
      [] department = "Science" -> 30
      [] OTHER -> 25

AddRefused(df, section_id) ==
    \/ ~any_section(df, section_id)
    \/ add_potential_teachers(df, iloc0(df, section_id)) = <<>>

add_section(df, section_id) ==
    IF AddRefused(df, section_id) THEN df
    ELSE LET section == iloc0(df, section_id)
             new_row == [section EXCEPT !.id = new_section_id(df),
                                        !.capacity = department_capacity(section.department),
                                        !.teacher = add_potential_teachers(df, section)[1]]
         IN  loc_setitem(df, new_row)

----
\* the section ids an action of the oracle may name: those of the catalog
\* it was shown, and one that is in no catalog
ActionIds == {input_tables.sections[i].id : i \in DOMAIN input_tables.sections} \cup {MissingId}

\* _apply_schedule_actions is entered: the tables are read from input_dir
InitActions ==
    /\ JobsIdle
    /\ OptimizerIdle
    /\ PipelineConstructed
    /\ apc = "applying"
    /\ sections_df \in SectionTables
    /\ preferences_df \in PreferenceTables(sections_df)
    /\ applied = 0
    /\ input_tables = [sections |-> sections_df, preferences |-> preferences_df]

NextAction ==
    /\ apc = "applying"
    /\ applied < MaxActions
    /\ applied' = applied + 1
    /\ UNCHANGED <<jvars, svars, pvars, apc, input_tables>>

ApplyMerge ==
    /\ NextAction
    /\ \E section_id \in ActionIds, merge_with \in ActionIds :
         /\ sections_df' = merge_sections(sections_df, section_id, merge_with)
         /\ preferences_df' = merge_preferences(sections_df, preferences_df, section_id, merge_with)

ApplyRemove ==
    /\ NextAction
    /\ \E section_id \in ActionIds :
         /\ sections_df' = remove_section(sections_df, section_id)
         /\ preferences_df' = remove_preferences(sections_df, preferences_df, section_id)

ApplySplit ==
    /\ NextAction
    /\ \E section_id \in ActionIds : sections_df' = split_section(sections_df, section_id)
    /\ UNCHANGED preferences_df

ApplyAdd ==
    /\ NextAction
    /\ \E section_id \in ActionIds : sections_df' = add_section(sections_df, section_id)
    /\ UNCHANGED preferences_df

\* the end of the action list: the tables are written to output_dir
SaveTables ==
    /\ apc = "applying"
    /\ apc' = "saved"
    /\ UNCHANGED <<jvars, svars, pvars, sections_df, preferences_df, applied, input_tables>>

NextActions ==
    \/ ApplyMerge
    \/ ApplyRemove
    \/ ApplySplit
    \/ ApplyAdd
    \/ SaveTables

SpecActions == InitActions /\ [][NextActions]_vars

----
\* the courses and the section ids of a catalog
CoursesOf(df) == {df[i].course : i \in DOMAIN df}
IdsOf(df) == {df[i].id : i \in DOMAIN df}

\* C15: after any sequence of SPLIT/ADD/REMOVE/MERGE actions applied to a
\* catalog, every course that had at least one section before the sequence
\* still has at least one section.
C15_CoursesKeepASection ==
    apc # "idle" => CoursesOf(input_tables.sections) \subseteq CoursesOf(sections_df)

\* C16: after any sequence of actions the section ids of the catalog are
\* pairwise distinct: the id generated by SPLIT or ADD never equals the id
\* of a section already in the catalog, also when existing ids carry
\* suffixes or do not follow the S### form.
C16_IdsDistinct ==
    \A i, j \in DOMAIN sections_df : i # j => sections_df[i].id # sections_df[j].id

\* a generated id stands in a catalog that holds an id with a suffix
C16_Witness ==
    /\ \E i \in DOMAIN sections_df : sections_df[i].id \notin IdsOf(input_tables.sections)
    /\ \E j \in DOMAIN sections_df : InSeq("_", sections_df[j].id)

\* the section ids a table of preference cells references (NaN and the empty
\* text reference none)
ReferencedIds(prefs) ==
    UNION {{prefs[r].sections[k] : k \in DOMAIN prefs[r].sections} : r \in DOMAIN prefs}

\* C17: if every preference list references only section ids of the catalog
\* before an action sequence, then after any sequence of actions every
\* preference list still references only section ids of the resulting catalog.
C17_PreferencesLive ==
    ReferencedIds(input_tables.preferences) \subseteq IdsOf(input_tables.sections)
        => ReferencedIds(preferences_df) \subseteq IdsOf(sections_df)

\* the entries of a preference cell, as a set
Entries(cell) == {cell.sections[k] : k \in DOMAIN cell.sections}

\* C18: MERGE(a, b) applied to two existing sections of the same course sets
\* a's capacity to min(capacity(a) + capacity(b), 35), removes b and only b
\* from the catalog, and replaces b by a in every preference list without
\* creating a duplicate entry of a; MERGE of sections of different courses,
\* or naming a missing section, changes nothing.
C18_Merge ==
    [][\A a, b \in ActionIds :
          (/\ NextAction
           /\ sections_df' = merge_sections(sections_df, a, b)
           /\ preferences_df' = merge_preferences(sections_df, preferences_df, a, b))
          => IF \/ a \notin IdsOf(sections_df)
                \/ b \notin IdsOf(sections_df)
                \/ \E i, j \in DOMAIN sections_df :
                      /\ sections_df[i].id = a
                      /\ sections_df[j].id = b
                      /\ sections_df[i].course # sections_df[j].course
             THEN sections_df' = sections_df /\ preferences_df' = preferences_df
             ELSE a # b =>
                  /\ IdsOf(sections_df') = IdsOf(sections_df) \ {b}
                  /\ Len(sections_df') = Len(sections_df) - 1
                  /\ \A i \in DOMAIN sections_df' : \E j, k \in DOMAIN sections_df :
                        /\ sections_df[k].id = b
                        /\ sections_df'[i] =
                              IF sections_df[j].id = a
                              THEN [sections_df[j] EXCEPT !.capacity =
                                       IF sections_df[j].capacity + sections_df[k].capacity < 35
                                       THEN sections_df[j].capacity + sections_df[k].capacity ELSE 35]
                              ELSE sections_df[j]
                  /\ Len(preferences_df') = Len(preferences_df)
                  /\ \A r \in DOMAIN preferences_df :
                        IF preferences_df[r].notna /\ b \in Entries(preferences_df[r])
                        THEN /\ Entries(preferences_df'[r]) = (Entries(preferences_df[r]) \ {b}) \cup {a}
                             /\ Cardinality({k \in DOMAIN preferences_df'[r].sections :
                                                preferences_df'[r].sections[k] = a}) = 1
                             /\ Len(preferences_df'[r].sections) = Cardinality(Entries(preferences_df'[r]))
                        ELSE preferences_df'[r] = preferences_df[r]]_vars

\* the first action was MERGE(a, b) of two sections of one course whose seats
\* sum to more than the cap, and a preference list that named b now names a
C18_Witness ==
    /\ applied = 1
    /\ \E a, b \in IdsOf(input_tables.sections) :
          /\ a # b
          /\ a \in IdsOf(sections_df)
          /\ b \notin IdsOf(sections_df)
          /\ iloc0(input_tables.sections, a).capacity + iloc0(input_tables.sections, b).capacity > MergeCap
          /\ iloc0(sections_df, a).capacity = MergeCap
          /\ \E r \in DOMAIN preferences_df :
                /\ b \in Entries(input_tables.preferences[r])
                /\ a \in Entries(preferences_df[r])
                /\ b \notin Entries(preferences_df[r])

\* section s is the only section of its teacher, or of its course, in df
OnlySectionOfTeacherOrCourse(df, s) ==
    \E i \in DOMAIN df :
        /\ df[i].id = s
        /\ \/ \A j \in DOMAIN df : df[j].teacher = df[i].teacher => j = i
           \/ \A j \in DOMAIN df : df[j].course = df[i].course => j = i

\* C19: REMOVE(s) is refused, leaving the catalog and all preference lists
\* unchanged, whenever s is the only section of its teacher or the only
\* section of its course at the moment the action is applied; otherwise
\* exactly s is deleted from the catalog and s is removed from every
\* preference list.
C19_Remove ==
    [][\A s \in ActionIds :
          (/\ NextAction
           /\ s \in IdsOf(sections_df)
           /\ sections_df' = remove_section(sections_df, s)
           /\ preferences_df' = remove_preferences(sections_df, preferences_df, s))
          => IF OnlySectionOfTeacherOrCourse(sections_df, s)
             THEN sections_df' = sections_df /\ preferences_df' = preferences_df
             ELSE /\ IdsOf(sections_df') = IdsOf(sections_df) \ {s}
                  /\ Len(sections_df') = Len(sections_df) - 1
                  /\ \A i \in DOMAIN sections_df' : \E j \in DOMAIN sections_df :
                        sections_df'[i] = sections_df[j]
                  /\ Len(preferences_df') = Len(preferences_df)
                  /\ \A r \in DOMAIN preferences_df :
                        IF preferences_df[r].notna /\ s \in Entries(preferences_df[r])
                        THEN /\ Entries(preferences_df'[r]) = Entries(preferences_df[r]) \ {s}
                             /\ Len(preferences_df'[r].sections) = Len(preferences_df[r].sections) - 1
                        ELSE preferences_df'[r] = preferences_df[r]]_vars

\* the first action was an accepted REMOVE(s) of a section that some
\* preference list named, in a catalog where another section could not be removed
C19_Witness ==
    /\ applied = 1
    /\ Len(sections_df) = Len(input_tables.sections) - 1
    /\ \A i \in DOMAIN sections_df : InSeq(sections_df[i], input_tables.sections)
    /\ \E s \in IdsOf(input_tables.sections) \ IdsOf(sections_df) :
          \E r \in DOMAIN preferences_df :
              /\ s \in Entries(input_tables.preferences[r])
              /\ s \notin Entries(preferences_df[r])
    /\ \E x \in IdsOf(input_tables.sections) : OnlySectionOfTeacherOrCourse(input_tables.sections, x)

\* C20: SPLIT(s) is refused, leaving the catalog unchanged, unless
\* capacity(s) > 30; an accepted SPLIT leaves s with ceil(capacity/2) seats
\* and creates exactly one new section with floor(capacity/2) seats, both at
\* least 15 and summing to the original capacity, the new section having the
\* course and department of s.
C20_Split ==
    [][\A s \in ActionIds :
          (/\ NextAction
           /\ s \in IdsOf(sections_df)
           /\ sections_df' = split_section(sections_df, s)
           /\ UNCHANGED preferences_df)
          => \A i \in DOMAIN sections_df : sections_df[i].id = s =>
                IF sections_df[i].capacity <= 30
                THEN sections_df' = sections_df
                ELSE sections_df' # sections_df =>
                     /\ \E j \in DOMAIN sections_df' :
                           /\ sections_df'[j].id = s
                           /\ 2 * sections_df'[j].capacity \in {sections_df[i].capacity, sections_df[i].capacity + 1}
                           /\ sections_df'[j].capacity >= 15
                     /\ Cardinality(IdsOf(sections_df') \ IdsOf(sections_df)) = 1
                     /\ \A k \in DOMAIN sections_df' : sections_df'[k].id \notin IdsOf(sections_df) =>
                           /\ 2 * sections_df'[k].capacity \in {sections_df[i].capacity, sections_df[i].capacity - 1}
                           /\ sections_df'[k].capacity >= 15
                           /\ sections_df'[k].course = sections_df[i].course
                           /\ sections_df'[k].department = sections_df[i].department
                           /\ \E j \in DOMAIN sections_df' :
                                 /\ sections_df'[j].id = s
                                 /\ sections_df'[j].capacity + sections_df'[k].capacity = sections_df[i].capacity]_vars

(***************************************************************************)
(* DataConverter.generate_utilization_report and the underutilized set of  *)
(* OptimizationPipeline.run, on the Schedule the greedy returned.          *)
(* Utilization is the exact fraction <<enrollment, capacity>>.             *)
(***************************************************************************)
\* the values of utilization_threshold: the default 0.75, and 0.5
Thresholds == {<<3, 4>>, <<1, 2>>}

\* one row of the report per entry of schedule.sections:
\* "enrollment / section.capacity if section.capacity > 0 else 0"
Utilization(sched, s) ==
    IF inst.sections[s].capacity > 0
    THEN <<Cardinality({k \in sched.assignments : k[2] = s}), inst.sections[s].capacity>>
    ELSE <<0, 1>>

\* utilization_df[utilization_df['Utilization'] < self.utilization_threshold]
underutilized_sections(sched, threshold) ==
    {s \in DOMAIN sched.sections : ScoreGT(threshold, Utilization(sched, s))}

\* C22: the underutilized set of an iteration is exactly the set of sections
\* that have a period and whose enrollment/capacity is strictly below the
\* threshold; a section at exactly the threshold is not in it, and a section
\* without a period is not analysed.
C22_UnderutilizedSet ==
    pc = "returned" =>
        \A threshold \in Thresholds :
            underutilized_sections(returned[1], threshold) =
                {s \in SectionIds :
                    /\ returned[1].sections[s] # NoPeriod
                    /\ Cardinality({u \in StudentIds : <<u, s>> \in returned[1].assignments})
                           * threshold[2] < threshold[1] * inst.sections[s].capacity}

\* C23: GreedyOptimizer.optimize always returns a Schedule and never raises,
\* for every input: no period with a positive score, students without
\* preferences or with empty preference lists (zero total course requests)
\* only lead to unscheduled sections and under-assigned students.
C23_GreedyNeverRaises ==
    algorithm = "greedy" => pc # "raised"

\* C24: when the input references an unknown teacher or an unknown course,
\* loading fails before any optimization stage runs: no greedy or MILP run
\* starts on such input.
C24_InputErrorsStopTheRun ==
    validation_issues # {} => pc = "load"

\* C25: ADD chooses the teacher of the new section by the same priority as
\* SPLIT (another teacher of the course with fewer than 6 sections, else a
\* teacher of the department with fewer than 6, else the template's own
\* teacher if below 6, else refusal): on every catalog an ADD of section s
\* is refused exactly when SPLIT would find no teacher for s, and an accepted
\* ADD gives the new section the teacher SPLIT would pick for s.
C25_AddPicksLikeSplit ==
    [][\A s \in ActionIds :
          (/\ NextAction
           /\ s \in IdsOf(sections_df)
           /\ sections_df' = add_section(sections_df, s)
           /\ UNCHANGED preferences_df)
          => IF sections_df' = sections_df
             THEN split_new_teacher(sections_df, iloc0(sections_df, s)) = <<>>
             ELSE \A k \in DOMAIN sections_df' :
                     sections_df'[k].id \notin IdsOf(sections_df)
                        => <<sections_df'[k].teacher>> = split_new_teacher(sections_df, iloc0(sections_df, s))]_vars

\* no teacher of the course or of the department of row i of df has fewer
\* than 6 sections
NoTeacherAvailable(df, i) ==
    \A t \in {df[j].teacher : j \in {k \in DOMAIN df : df[k].course = df[i].course}}
             \cup {teachers_df[j].id : j \in {k \in DOMAIN teachers_df :
                                                teachers_df[k].department = df[i].department}} :
        Cardinality({j \in DOMAIN df : df[j].teacher = t}) >= 6

\* C21: when an action of the list is refused (unknown section, MERGE across
\* courses, REMOVE of an only section, SPLIT of capacity <= 30, no teacher
\* available), the catalog and the preference lists are exactly as they were
\* before that action, so that every later action of the list is applied to
\* the tables it would have met without the refused action.
C21_RefusedActionChangesNothing ==
    [][(\E a \in ActionIds :
          \/ \E b \in ActionIds :
                /\ \/ a \notin IdsOf(sections_df)
                   \/ b \notin IdsOf(sections_df)
                   \/ \E i, j \in DOMAIN sections_df :
                         /\ sections_df[i].id = a
                         /\ sections_df[j].id = b
                         /\ sections_df[i].course # sections_df[j].course
                /\ sections_df' = merge_sections(sections_df, a, b)
                /\ preferences_df' = merge_preferences(sections_df, preferences_df, a, b)
          \/ /\ a \notin IdsOf(sections_df) \/ OnlySectionOfTeacherOrCourse(sections_df, a)
             /\ sections_df' = remove_section(sections_df, a)
             /\ preferences_df' = remove_preferences(sections_df, preferences_df, a)
          \/ /\ \/ a \notin IdsOf(sections_df)
                \/ \E i \in DOMAIN sections_df :
                      /\ sections_df[i].id = a
                      /\ sections_df[i].capacity <= 30 \/ NoTeacherAvailable(sections_df, i)
             /\ preferences_df' = preferences_df
             /\ sections_df' = split_section(sections_df, a)
          \/ /\ \/ a \notin IdsOf(sections_df)
                \/ \E i \in DOMAIN sections_df :
                      sections_df[i].id = a /\ NoTeacherAvailable(sections_df, i)
             /\ preferences_df' = preferences_df
             /\ sections_df' = add_section(sections_df, a))
       => (sections_df' = sections_df /\ preferences_df' = preferences_df)]_vars

\* two actions were processed, one refused and one accepted ADD: the catalog
\* is the input catalog plus one section, the preference lists are the input's
C21_Witness ==
    /\ applied = 2
    /\ Len(sections_df) = Len(input_tables.sections) + 1
    /\ \A i \in DOMAIN input_tables.sections : sections_df[i] = input_tables.sections[i]
    /\ preferences_df = input_tables.preferences

\* C26: the greedy's processing order is canonical and independent of the
\* order of the input: in particular, among the periods with the same highest
\* positive score for a section, the period with the smallest period name is
\* the one the section is placed in.
C26_TiesByPeriodName ==
    [][\A s \in SectionIds :
          (algorithm = "greedy" /\ scheduled_sections[s] = NoPeriod /\ scheduled_sections'[s] # NoPeriod)
          => \A q \in PeriodIds :
                (compute_period_score(s, q)[1] * compute_period_score(s, scheduled_sections'[s])[2]
                   = compute_period_score(s, scheduled_sections'[s])[1] * compute_period_score(s, q)[2])
                => StrRank[PeriodName(scheduled_sections'[s])] <= StrRank[PeriodName(q)]]_vars

\* section s is the one this step of the section phase considers
Considered(s) ==
    /\ algorithm = "greedy"
    /\ pc \in {"sweep1", "sweep2", "sweep3"}
    /\ s = sorted_sections[cur.i]
    /\ scheduled_sections[s] = NoPeriod
    /\ pc = "sweep1" => inst.sections[s].course_id \in DOMAIN special_course_periods
    /\ pc = "sweep2" => inst.sections[s].course_id = "Sports Med"

\* C27: in the greedy section phase a section is left unscheduled if and only
\* if, at the moment it is considered, every period has score 0 for it, and a
\* section is only ever placed in a period with a positive score; when all
\* sections have distinct teachers with an available period and unrestricted
\* courses, every section has a period at the end of the phase.
C27_UnscheduledIffAllZero ==
    [][/\ \A s \in SectionIds :
             Considered(s) =>
                /\ scheduled_sections'[s] = NoPeriod
                      <=> \A q \in PeriodIds : compute_period_score(s, q)[1] <= 0
                /\ scheduled_sections'[s] # NoPeriod
                      => compute_period_score(s, scheduled_sections'[s])[1] > 0
       /\ \A s \in SectionIds :
             (scheduled_sections[s] = NoPeriod /\ scheduled_sections'[s] # NoPeriod) => Considered(s)
       /\ (algorithm = "greedy" /\ pc = "sweep3" /\ pc' = "passA")
             => ((/\ \A a, b \in SectionIds :
                        a # b => inst.sections[a].teacher_id # inst.sections[b].teacher_id
                  /\ \A a \in SectionIds :
                        /\ inst.sections[a].course_id \notin DOMAIN course_period_restrictions
                        /\ inst.sections[a].teacher_id \in DOMAIN inst.teachers
                              => \E q \in PeriodIds :
                                    q \notin inst.teachers[inst.sections[a].teacher_id].unavailable_periods)
                 => \A a \in SectionIds : scheduled_sections'[a] # NoPeriod)]_vars

\* the section phase is over, one section has a period and another has none
C27_Witness ==
    /\ algorithm = "greedy"
    /\ pc = "passA"
    /\ \E a, b \in SectionIds : scheduled_sections[a] = NoPeriod /\ scheduled_sections[b] # NoPeriod

\* C28: an accepted ADD or SPLIT grows the catalog by exactly one section and
\* keeps every section that was in the catalog before it (same id, course
\* and teacher), whatever actions were applied earlier in the same list.
C28_AddAndSplitKeepSections ==
    [][\A s \in ActionIds :
          (/\ NextAction
           /\ s \in IdsOf(sections_df)
           /\ sections_df' = add_section(sections_df, s) \/ sections_df' = split_section(sections_df, s)
           /\ UNCHANGED preferences_df
           /\ sections_df' # sections_df)
          => /\ Len(sections_df') = Len(sections_df) + 1
             /\ \A i \in DOMAIN sections_df : \E j \in DOMAIN sections_df' :
                   /\ sections_df'[j].id = sections_df[i].id
                   /\ sections_df'[j].course = sections_df[i].course
                   /\ sections_df'[j].teacher = sections_df[i].teacher]_vars

\* C29: when run returns, metrics['iterations'] equals the number of loop
\* passes that were entered and equals results['iterations'], whichever way
\* the loop ended.  A pass is entered each time the while test succeeds; the
\* counter self.iteration is raised only at the end of a full pass, so when the
\* loop is left by a break during pass number iteration + 1 the number of
\* passes entered is iteration + 1.
C29_IterationCount ==
    ppc = "returned" =>
        /\ metrics_iterations = iteration + 1
        /\ results_iterations = <<metrics_iterations>>

(***************************************************************************)
(* The job API (api.py).  POST /optimize stores a record in the table      *)
(* "jobs" and starts a thread running run_optimization_job; every request  *)
(* is served by a thread of its own, so the statements of the worker and   *)
(* of the DELETE handlers interleave.  One step is one statement that      *)
(* touches the table.  A job id is a fresh uuid4: it is never used twice.  *)
(***************************************************************************)
JobIds == 1..MaxJobs
RequestIds == 1..MaxRequests

\* "jobs[job_id].update({'status': ...})", the table holding job_id
set_status(job_id, status) == [jobs EXCEPT ![job_id] = [status |-> status]]

\* optimize(): "jobs[job_id] = job" with status 'pending', then thread.start()
Submit ==
    /\ \E job_id \in JobIds :
         /\ wpc[job_id] = "none"
         /\ \A other \in JobIds : other < job_id => wpc[other] # "none"
         /\ jobs' = [k \in DOMAIN jobs \cup {job_id} |->
                        IF k = job_id THEN [status |-> "pending"] ELSE jobs[k]]
         /\ wpc' = [wpc EXCEPT ![job_id] = "start"]
    /\ UNCHANGED <<svars, pvars, avars, results, error, dpc, dtarget>>

\* run_optimization_job: "jobs[job_id]['status'] = 'processing'"; a KeyError
\* is caught by the except clause of the function
WorkerStart ==
    /\ \E job_id \in JobIds :
         /\ wpc[job_id] = "start"
         /\ IF job_id \in DOMAIN jobs
            THEN /\ jobs' = set_status(job_id, "processing")
                 /\ wpc' = [wpc EXCEPT ![job_id] = "optimize"]
                 /\ UNCHANGED error
            ELSE /\ error' = [error EXCEPT ![job_id] = "KeyError"]
                 /\ wpc' = [wpc EXCEPT ![job_id] = "except"]
                 /\ UNCHANGED jobs
    /\ UNCHANGED <<svars, pvars, avars, results, dpc, dtarget>>

\* "optimizer = ScheduleOptimizer(...); results = optimizer.optimize(...)":
\* returns results with success True or False, or raises
WorkerOptimize ==
    /\ \E job_id \in JobIds :
         /\ wpc[job_id] = "optimize"
         /\ \E outcome \in {"success", "failure", "raises"} :
              IF outcome = "raises"
              THEN /\ error' = [error EXCEPT ![job_id] = "optimizer"]
                   /\ wpc' = [wpc EXCEPT ![job_id] = "except"]
                   /\ UNCHANGED results
              ELSE /\ results' = [results EXCEPT ![job_id] = outcome]
                   /\ wpc' = [wpc EXCEPT ![job_id] = "update"]
                   /\ UNCHANGED error
    /\ UNCHANGED <<svars, pvars, avars, jobs, dpc, dtarget>>

\* "jobs[job_id].update({'status': 'completed' if results['success'] else 'failed', ...})"
WorkerUpdate ==
    /\ \E job_id \in JobIds :
         /\ wpc[job_id] = "update"
         /\ IF job_id \in DOMAIN jobs
            THEN /\ jobs' = set_status(job_id, IF results[job_id] = "success" THEN "completed" ELSE "failed")
                 /\ wpc' = [wpc EXCEPT ![job_id] = "log"]
                 /\ UNCHANGED error
            ELSE /\ error' = [error EXCEPT ![job_id] = "KeyError"]
                 /\ wpc' = [wpc EXCEPT ![job_id] = "except"]
                 /\ UNCHANGED jobs
    /\ UNCHANGED <<svars, pvars, avars, results, dpc, dtarget>>

\* "logger.info(f"... {jobs[job_id]['status']}")": the last statement of the
\* try block reads the record again
WorkerLog ==
    /\ \E job_id \in JobIds :
         /\ wpc[job_id] = "log"
         /\ IF job_id \in DOMAIN jobs
            THEN /\ wpc' = [wpc EXCEPT ![job_id] = "done"]
                 /\ UNCHANGED error
            ELSE /\ error' = [error EXCEPT ![job_id] = "KeyError"]
                 /\ wpc' = [wpc EXCEPT ![job_id] = "except"]
    /\ UNCHANGED <<svars, pvars, avars, jobs, results, dpc, dtarget>>

\* "except Exception as e: ... jobs[job_id].update({'status': 'failed', ...})";
\* a KeyError raised here leaves the function and ends the thread
WorkerExcept ==
    /\ \E job_id \in JobIds :
         /\ wpc[job_id] = "except"
         /\ IF job_id \in DOMAIN jobs
            THEN /\ jobs' = set_status(job_id, "failed")
                 /\ wpc' = [wpc EXCEPT ![job_id] = "done"]
                 /\ UNCHANGED error
            ELSE /\ error' = [error EXCEPT ![job_id] = "KeyError"]
                 /\ wpc' = [wpc EXCEPT ![job_id] = "died"]
                 /\ UNCHANGED jobs
    /\ UNCHANGED <<svars, pvars, avars, results, dpc, dtarget>>

\* delete_job: a DELETE request arrives; "if job_id not in jobs: abort(404)"
DeleteLookup ==
    /\ \E r \in RequestIds, job_id \in JobIds :
         /\ dpc[r] = "none"
         /\ \A other \in RequestIds : other < r => dpc[other] # "none"
         /\ dtarget' = [dtarget EXCEPT ![r] = job_id]
         /\ dpc' = [dpc EXCEPT ![r] = IF job_id \in DOMAIN jobs THEN "status" ELSE "404"]
    /\ UNCHANGED <<svars, pvars, avars, jobs, wpc, results, error>>

\* "job = jobs[job_id]; if job['status'] not in ['completed', 'failed']: abort(400)";
\* a KeyError becomes the response 500
DeleteStatus ==
    /\ \E r \in RequestIds :
         /\ dpc[r] = "status"
         /\ dpc' = [dpc EXCEPT ![r] =
                       IF dtarget[r] \notin DOMAIN jobs THEN "500"
                       ELSE IF jobs[dtarget[r]].status \in {"completed", "failed"} THEN "del"
                       ELSE "400"]
    /\ UNCHANGED <<svars, pvars, avars, jobs, wpc, results, error, dtarget>>

\* the directories are removed, then "del jobs[job_id]" and the response 200;
\* a KeyError becomes the response 500
DeleteRemove ==
    /\ \E r \in RequestIds :
         /\ dpc[r] = "del"
         /\ IF dtarget[r] \in DOMAIN jobs
            THEN /\ jobs' = [k \in DOMAIN jobs \ {dtarget[r]} |-> jobs[k]]
                 /\ dpc' = [dpc EXCEPT ![r] = "200"]
            ELSE /\ dpc' = [dpc EXCEPT ![r] = "500"]
                 /\ UNCHANGED jobs
    /\ UNCHANGED <<svars, pvars, avars, wpc, results, error, dtarget>>

InitJobs ==
    /\ OptimizerIdle
    /\ PipelineConstructed
    /\ ApplierIdle
    /\ JobsIdle

NextJobs ==
    \/ Submit
    \/ WorkerStart
    \/ WorkerOptimize
    \/ WorkerUpdate
    \/ WorkerLog
    \/ WorkerExcept
    \/ DeleteLookup
    \/ DeleteStatus
    \/ DeleteRemove

SpecJobs == InitJobs /\ [][NextJobs]_vars

\* the record of job_id has been stored and removed again
Deleted(job_id) == wpc[job_id] # "none" /\ job_id \notin DOMAIN jobs

\* C30: the worker thread of a job never reads or writes the job's record
\* after the record was deleted: a record is only removed once its worker has
\* made its last access (the thread has ended), no access of a worker ever
\* finds the record missing, and the status of a record only moves
\* pending -> processing -> completed or failed.
C30_WorkerNeverTouchesDeletedRecord ==
    [][\A job_id \in JobIds :
          /\ Deleted(job_id)' => wpc'[job_id] \in {"done", "died"}
          /\ error'[job_id] # "KeyError"
          /\ (job_id \in DOMAIN jobs /\ job_id \in DOMAIN jobs'
                 /\ jobs'[job_id].status # jobs[job_id].status)
              => <<jobs[job_id].status, jobs'[job_id].status>> \in
                    {<<"pending", "processing">>, <<"processing", "completed">>,
                     <<"processing", "failed">>}]_vars

====
